---- MODULE Spec2Model ----
(***************************************************************************)
(* hosts-digger: Record::new and Parser::parse of src/src/lib.rs.          *)
(*                                                                         *)
(* Text is modelled character by character: a line is a sequence of        *)
(* one-character strings.  The line alphabet holds digits, letters, '.',   *)
(* '-', '#', space and tab; it has no ':' so every address literal that    *)
(* can occur in a line is judged by the dotted-decimal grammar alone.      *)
(***************************************************************************)
EXTENDS Integers, Sequences, FiniteSets, TLC

VARIABLES records, part, line, pc, result, consumed, calls, path, made

vars == <<records, part, line, pc, result, consumed, calls, path, made>>

\* bounds of the model
MaxLines == 3
MaxCalls == 2
MaxNames == 2

SP == " "
TAB == "\t"

----------------------------------------------------------------------------
(* Address and its classification predicates *)

V4(a, b, c, d) == [v |-> 4, w |-> <<a, b, c, d>>]
V6(a, b, c, d, e, f, g, h) == [v |-> 6, w |-> <<a, b, c, d, e, f, g, h>>]

is_loopback(addr) ==
    IF addr.v = 4 THEN addr.w[1] = 127
    ELSE addr.w = <<0, 0, 0, 0, 0, 0, 0, 1>>

is_private(addr) ==
    IF addr.v = 4
    THEN \/ addr.w[1] = 10
         \/ addr.w[1] = 172 /\ addr.w[2] \in 16..31
         \/ addr.w[1] = 192 /\ addr.w[2] = 168
    ELSE addr.w[1] \div 512 = 126

----------------------------------------------------------------------------
(* Record::new *)

NoAddr == [v |-> 0, w |-> <<>>]

RecordOk(addr, names) == [ok |-> TRUE, addr |-> addr, names |-> names, err |-> "none"]
RecordErr == [ok |-> FALSE, addr |-> NoAddr, names |-> <<>>, err |-> "InvalidIpAddress"]

RecordNew_privateOnly(addr, names) ==
    IF is_private(addr) THEN RecordOk(addr, names) ELSE RecordErr

RecordNew_noGate(addr, names) == RecordOk(addr, names)

RecordNew(addr, names) ==
    IF is_private(addr) \/ is_loopback(addr)
    THEN RecordOk(addr, names)
    ELSE RecordErr

Rec(r) == [addr |-> r.addr, names |-> r.names]

----------------------------------------------------------------------------
(* text helpers: str::replace, str::split, str::parse *)

Digits == <<"0", "1", "2", "3", "4", "5", "6", "7", "8", "9">>

IsDigit(c) == \E i \in 1..10 : Digits[i] = c

DigitVal(c) == (CHOOSE i \in 1..10 : Digits[i] = c) - 1

RECURSIVE SplitOn(_, _)
SplitOn(s, c) ==
    IF \A i \in 1..Len(s) : s[i] # c
    THEN <<s>>
    ELSE LET k == CHOOSE i \in 1..Len(s) :
                     s[i] = c /\ \A j \in 1..(i - 1) : s[j] # c
         IN  <<SubSeq(s, 1, k - 1)>> \o SplitOn(SubSeq(s, k + 1, Len(s)), c)

ReplaceTab(a) == [i \in 1..Len(a) |-> IF a[i] = TAB THEN SP ELSE a[i]]

RECURSIVE DecVal(_)
DecVal(s) == IF s = <<>> THEN 0
             ELSE 10 * DecVal(SubSeq(s, 1, Len(s) - 1)) + DigitVal(s[Len(s)])

OctetOk(s) ==
    /\ Len(s) \in 1..3
    /\ \A i \in 1..Len(s) : IsDigit(s[i])
    /\ Len(s) > 1 => s[1] # "0"
    /\ DecVal(s) <= 255

ParseAddr(tok) ==
    LET p == SplitOn(tok, ".")
    IN  IF Len(p) = 4 /\ \A i \in 1..4 : OctetOk(p[i])
        THEN [ok |-> TRUE, addr |-> V4(DecVal(p[1]), DecVal(p[2]), DecVal(p[3]), DecVal(p[4]))]
        ELSE [ok |-> FALSE, addr |-> NoAddr]

Tokenize_keepTabs(a) ==
    SelectSeq(SplitOn(a, SP), LAMBDA s : s # <<>>)

Tokenize(a) ==
    SelectSeq(SplitOn(ReplaceTab(a), SP), LAMBDA s : s # <<>>)

----------------------------------------------------------------------------
(* the texts the file may hold *)

N_localhost == <<"l", "o", "c", "a", "l", "h", "o", "s", "t">>
N_core_naus == <<"c", "o", "r", "e", ".", "n", "a", "u", "s">>
N_core == <<"c", "o", "r", "e">>
N_dns_google == <<"d", "n", "s", ".", "g", "o", "o", "g", "l", "e">>

L_blank == <<>>
L_comment == <<"#", " ", "c">>
L_commented_entry == <<"#", "1", "0", ".", "0", ".", "0", ".", "1", " ", "c", "o", "r", "e">>
L_spaces == <<" ", " ">>
L_tab == <<"\t">>
L_loopback_tab == <<"1", "2", "7", ".", "0", ".", "0", ".", "1", "\t", "l", "o", "c", "a", "l", "h", "o", "s", "t">>
L_private_two == <<"1", "9", "2", ".", "1", "6", "8", ".", "1", "0", ".", "4", "2", " ", "c", "o", "r", "e", ".", "n", "a", "u", "s", " ", "c", "o", "r", "e">>
L_private_bare == <<"1", "9", "2", ".", "1", "6", "8", ".", "1", "0", ".", "4", "2">>
L_private_runs == <<" ", "1", "0", ".", "0", ".", "0", ".", "1", " ", "\t", " ", "c", "o", "r", "e", " ", " ", "c", "o", "r", "e", " ">>
L_private_hash == <<"1", "7", "2", ".", "1", "6", ".", "0", ".", "1", " ", "c", "o", "r", "e", " ", "#", "c">>
L_global == <<"8", ".", "8", ".", "8", ".", "8", " ", "d", "n", "s", ".", "g", "o", "o", "g", "l", "e">>
L_global_edge == <<"1", "7", "2", ".", "3", "2", ".", "0", ".", "1", " ", "c", "o", "r", "e">>
L_not_ip == <<"n", "o", "t", "-", "a", "n", "-", "i", "p", " ", "s", "o", "m", "e", "h", "o", "s", "t">>
L_bad_octet == <<"1", "0", ".", "0", ".", "0", ".", "2", "5", "6", " ", "c", "o", "r", "e">>
L_lead_zero == <<"0", "1", "0", ".", "0", ".", "0", ".", "1", " ", "c", "o", "r", "e">>
L_indented_hash == <<" ", "#", "c">>

Lines == {L_blank,
          L_comment,
          L_commented_entry,
          L_spaces,
          L_tab,
          L_loopback_tab,
          L_private_two,
          L_private_bare,
          L_private_runs,
          L_private_hash,
          L_global,
          L_global_edge,
          L_not_ip,
          L_bad_octet,
          L_lead_zero,
          L_indented_hash}

\* what io::Lines yields: Ok(text) or Err(io error)
OkLine(a) == [ok |-> TRUE, text |-> a]
IoErr == [ok |-> FALSE, text |-> <<>>]

----------------------------------------------------------------------------
(* Parser::parse, one loop iteration *)

IsSkipped_blankOnly(a) == a = <<>>

IsSkipped(a) == a = <<>> \/ a[1] = "#"

Push_front(recs, r) == <<r>> \o recs

Push(recs, r) == Append(recs, r)

Collect_strict(recs, addr, names) ==
    LET r == RecordNew(addr, names)
    IN  IF r.ok THEN [records |-> Push(recs, Rec(r)), status |-> "continue"]
        ELSE [records |-> recs, status |-> "Unknown"]

Collect(recs, addr, names) ==
    LET r == RecordNew(addr, names)
    IN  IF r.ok THEN [records |-> Push(recs, Rec(r)), status |-> "continue"]
        ELSE [records |-> recs, status |-> "continue"]

ProcessLine(recs, a) ==
    IF IsSkipped(a) THEN [records |-> recs, status |-> "continue"]
    ELSE LET record_info == Tokenize(a)
         IN  IF record_info = <<>>
             THEN [records |-> recs, status |-> "panic"]
             ELSE LET name == Head(record_info)
                      addrs == Tail(record_info)
                      parsed == ParseAddr(name)
                  IN  IF ~parsed.ok
                      THEN [records |-> recs, status |-> "ParseError"]
                      ELSE Collect(recs, parsed.addr, addrs)

----------------------------------------------------------------------------
(* inputs of a direct Record::new call *)

AddrSamples ==
    {V4(127, 0, 0, 1), V4(127, 255, 255, 255), V4(126, 255, 255, 255), V4(128, 0, 0, 0),
     V4(10, 0, 0, 0), V4(9, 255, 255, 255), V4(11, 0, 0, 0),
     V4(172, 15, 255, 255), V4(172, 16, 0, 0), V4(172, 31, 255, 255), V4(172, 32, 0, 0),
     V4(192, 168, 10, 42), V4(192, 167, 255, 255), V4(192, 169, 0, 0),
     V4(8, 8, 8, 8), V4(0, 0, 0, 0),
     V6(0, 0, 0, 0, 0, 0, 0, 1), V6(0, 0, 0, 0, 0, 0, 0, 0), V6(0, 0, 0, 0, 0, 0, 0, 2),
     V6(64512, 0, 0, 0, 0, 0, 0, 0), V6(65023, 0, 0, 0, 0, 0, 0, 1),
     V6(65024, 0, 0, 0, 0, 0, 0, 0), V6(64511, 0, 0, 0, 0, 0, 0, 0),
     V6(8193, 3512, 0, 0, 0, 0, 0, 1)}

NameSamples == {N_localhost, N_core}

NameLists == UNION {[1..n -> NameSamples] : n \in 0..MaxNames}

----------------------------------------------------------------------------
(* state machine *)

\* the paths a caller may hand to parse, and whether File::open succeeds
Paths == {"/etc/hosts", "/nonexistent"}

FileOpens(p) == p = "/etc/hosts"

Init ==
    /\ records = <<>>
    /\ part = "Unknown"
    /\ line = 0
    /\ pc = "idle"
    /\ result = "none"
    /\ consumed = <<>>
    /\ calls = 0
    /\ path = "none"
    /\ made = <<>>

\* parse: File::open(file)? fails
ParseOpenFail_clears ==
    /\ pc = "idle"
    /\ calls < MaxCalls
    /\ \E p \in Paths : ~FileOpens(p) /\ path' = p
    /\ calls' = calls + 1
    /\ result' = "CouldNotOpen"
    /\ records' = <<>>
    /\ UNCHANGED <<part, line, pc, consumed, made>>

ParseOpenFail ==
    /\ pc = "idle"
    /\ calls < MaxCalls
    /\ \E p \in Paths : ~FileOpens(p) /\ path' = p
    /\ calls' = calls + 1
    /\ result' = "CouldNotOpen"
    /\ UNCHANGED <<records, part, line, pc, consumed, made>>

\* parse: the file opens, self.part = Part::Names, the loop starts
ParseOpen ==
    /\ pc = "idle"
    /\ calls < MaxCalls
    /\ \E p \in Paths : FileOpens(p) /\ path' = p
    /\ calls' = calls + 1
    /\ part' = "Names"
    /\ pc' = "reading"
    /\ result' = "running"
    /\ UNCHANGED <<records, line, consumed, made>>

\* the iterator yields Err(e): `if let Ok(a) = line` does not match
LoopReadErr ==
    /\ pc = "reading"
    /\ Len(consumed) < MaxLines
    /\ consumed' = Append(consumed, IoErr)
    /\ UNCHANGED <<records, part, line, pc, result, calls, path, made>>

\* the iterator yields Ok(a): one pass through the loop body
LoopLine ==
    /\ pc = "reading"
    /\ Len(consumed) < MaxLines
    /\ \E a \in Lines :
         LET out == ProcessLine(records, a)
         IN  /\ consumed' = Append(consumed, OkLine(a))
             /\ records' = out.records
             /\ pc' = CASE out.status = "continue" -> "reading"
                        [] out.status = "panic" -> "crashed"
                        [] OTHER -> "idle"
             /\ result' = CASE out.status = "continue" -> result
                            [] out.status = "panic" -> "Panic"
                            [] OTHER -> out.status
    /\ UNCHANGED <<part, line, calls, path, made>>

\* the iterator is exhausted: Ok(())
ParseReturn ==
    /\ pc = "reading"
    /\ pc' = "idle"
    /\ result' = "Ok"
    /\ UNCHANGED <<records, part, line, consumed, calls, path, made>>

Next ==
    \/ ParseOpenFail
    \/ ParseOpen
    \/ LoopReadErr
    \/ LoopLine
    \/ ParseReturn

Spec == Init /\ [][Next]_vars

\* a caller constructing a Record directly
NewRecord ==
    /\ \E addr \in AddrSamples, names \in NameLists :
         made' = <<[addr |-> addr, names |-> names, res |-> RecordNew(addr, names)]>>
    /\ UNCHANGED <<records, part, line, pc, result, consumed, calls, path>>

NextRecord == NewRecord

SpecRecord == Init /\ [][NextRecord]_vars

----------------------------------------------------------------------------
(* the file format, stated without reference to the tokenizer *)

IsWs(c) == c \in {SP, TAB}

WordStarts(a) == {i \in 1..Len(a) : ~IsWs(a[i]) /\ (i = 1 \/ IsWs(a[i - 1]))}

WordEnd(a, i) ==
    CHOOSE j \in i..Len(a) :
        /\ \A k \in i..j : ~IsWs(a[k])
        /\ j = Len(a) \/ IsWs(a[j + 1])

\* the maximal runs of non-blank characters of a, left to right
Words(a) ==
    LET S == WordStarts(a)
        nth(k) == CHOOSE i \in S : Cardinality({j \in S : j < i}) = k - 1
    IN  [k \in 1..Cardinality(S) |-> SubSeq(a, nth(k), WordEnd(a, nth(k)))]

IsBlank(a) == a = <<>>
IsComment(a) == a # <<>> /\ a[1] = "#"
IsEntry(a) == ~IsBlank(a) /\ ~IsComment(a) /\ Words(a) # <<>>
IsWhitespaceOnly(a) == ~IsBlank(a) /\ ~IsComment(a) /\ Words(a) = <<>>

BadAddressLine(a) == IsEntry(a) /\ ~ParseAddr(Head(Words(a))).ok

Acceptable(addr) == is_loopback(addr) \/ is_private(addr)

GlobalLine(a) ==
    /\ IsEntry(a)
    /\ ParseAddr(Head(Words(a))).ok
    /\ ~Acceptable(ParseAddr(Head(Words(a))).addr)

AcceptedLine(a) ==
    /\ IsEntry(a)
    /\ ParseAddr(Head(Words(a))).ok
    /\ Acceptable(ParseAddr(Head(Words(a))).addr)

RecordOf(a) == [addr |-> ParseAddr(Head(Words(a))).addr, names |-> Tail(Words(a))]

Contribution(it) ==
    IF it.ok /\ AcceptedLine(it.text) THEN <<RecordOf(it.text)>> ELSE <<>>

RECURSIVE Expected(_)
Expected(items) ==
    IF items = <<>> THEN <<>>
    ELSE Expected(SubSeq(items, 1, Len(items) - 1)) \o Contribution(items[Len(items)])

\* the step that has just consumed line a
Consumes(a) == consumed' = Append(consumed, OkLine(a))

----------------------------------------------------------------------------
(* claims *)

\* C1: Record::new(addr, names) succeeds exactly when addr is loopback or
\* private, and then the Record carries addr and names unchanged and in
\* order; for any other address it fails with the invalid-address error.
C1_RecordNewGate ==
    \A i \in 1..Len(made) :
        LET m == made[i]
        IN  IF Acceptable(m.addr)
            THEN m.res.ok /\ m.res.addr = m.addr /\ m.res.names = m.names
            ELSE ~m.res.ok /\ m.res.err = "InvalidIpAddress"

C1_Witness ==
    /\ made # <<>>
    /\ made[1].addr = V6(0, 0, 0, 0, 0, 0, 0, 1)
    /\ made[1].names = <<>>
    /\ made[1].res.ok

\* C2: a line whose first token is not an address adds no record and does
\* not abort the parse: the loop goes on and no parse error is returned.
C2_BadAddressTolerated ==
    [][\A a \in Lines :
          (Consumes(a) /\ BadAddressLine(a)) =>
              (records' = records /\ pc' = "reading" /\ result' # "ParseError")]_vars

\* C3: a line whose address parses but is neither loopback nor private
\* leaves the accumulator unchanged and the parse goes on; a file made only
\* of such lines is parsed with success.
C3_GlobalLineDropped ==
    /\ [][\A a \in Lines :
            (Consumes(a) /\ GlobalLine(a)) =>
                (records' = records /\ pc' = "reading" /\ result' = result)]_vars
    /\ []((/\ pc = "idle"
           /\ result \notin {"none", "CouldNotOpen"}
           /\ \A i \in 1..Len(consumed) :
                 consumed[i].ok /\ GlobalLine(consumed[i].text))
          => (result = "Ok" /\ records = <<>>))

C3_Witness ==
    /\ pc = "idle"
    /\ result = "Ok"
    /\ Len(records) = 1
    /\ \E i \in 1..(Len(consumed) - 1) :
          /\ consumed[i].ok /\ GlobalLine(consumed[i].text)
          /\ consumed[i + 1].ok /\ AcceptedLine(consumed[i + 1].text)

\* C4: every Record in the accumulator has a loopback or private address,
\* at every point of every parse call.
C4_OnlyAcceptableRecords ==
    \A i \in 1..Len(records) : Acceptable(records[i].addr)

C4_Witness ==
    /\ calls = 2
    /\ path = "/etc/hosts"
    /\ Len(records) >= 2
    /\ is_loopback(records[1].addr)
    /\ is_private(records[2].addr)

\* C5: a parse of a path that cannot be opened returns CouldNotOpen, reads
\* no line and leaves the accumulator as it was.
C5_OpenFailure ==
    [][(calls' = calls + 1 /\ ~FileOpens(path')) =>
          (/\ result' = "CouldNotOpen"
           /\ pc' = "idle"
           /\ records' = records
           /\ consumed' = consumed)]_vars

C5_Witness ==
    /\ result = "CouldNotOpen"
    /\ path = "/nonexistent"
    /\ records # <<>>

\* C6: a line that cannot be read makes parse fail with CouldNotOpen.
C6_ReadFailureFatal ==
    [][(consumed' = Append(consumed, IoErr)) =>
          (result' = "CouldNotOpen" /\ pc' = "idle")]_vars

\* C7: the tokens of a line are its maximal runs of characters other than
\* space and tab; the first is the address literal and the rest, in order
\* and with duplicates, are the names of the record the line yields.
C7_Tokenization ==
    [][\A a \in Lines :
          Consumes(a) =>
              /\ AcceptedLine(a) => records' = Append(records, RecordOf(a))
              /\ a = L_private_two =>
                     records' = Append(records,
                         [addr |-> V4(192, 168, 10, 42), names |-> <<N_core_naus, N_core>>])
              /\ a = L_private_bare =>
                     records' = Append(records,
                         [addr |-> V4(192, 168, 10, 42), names |-> <<>>])]_vars

C7_Witness ==
    \E i, j, k \in 1..Len(records) :
        /\ records[i] = [addr |-> V4(192, 168, 10, 42), names |-> <<N_core_naus, N_core>>]
        /\ records[j] = [addr |-> V4(127, 0, 0, 1), names |-> <<N_localhost>>]
        /\ records[k] = [addr |-> V4(10, 0, 0, 1), names |-> <<N_core, N_core>>]

\* C8: the accumulator is the sequence of the records of the accepted lines
\* consumed so far, in the order of the lines; a step appends at most one
\* record at the end and never removes or reorders one.
C8_FileOrder ==
    /\ [](records = Expected(consumed))
    /\ [][\/ records' = records
          \/ /\ Len(records') = Len(records) + 1
             /\ SubSeq(records', 1, Len(records)) = records]_vars

C8_Witness ==
    /\ Len(records) = 3
    /\ records[1] # records[2]
    /\ records[2] # records[3]
    /\ records[1] # records[3]
    /\ \E i \in 1..Len(consumed) : Contribution(consumed[i]) = <<records[3]>>

\* C9: blank lines and lines starting with '#' leave the accumulator
\* unchanged and the parse goes on; a file of only such lines is parsed with
\* success and an empty record set.
C9_SkippedLines ==
    /\ [][\A a \in Lines :
            (Consumes(a) /\ (IsBlank(a) \/ IsComment(a))) =>
                (records' = records /\ pc' = "reading" /\ result' = result)]_vars
    /\ []((/\ pc = "idle"
           /\ result \notin {"none", "CouldNotOpen"}
           /\ \A i \in 1..Len(consumed) :
                 /\ consumed[i].ok
                 /\ IsBlank(consumed[i].text) \/ IsComment(consumed[i].text))
          => (result = "Ok" /\ records = <<>>))

C9_Witness ==
    /\ pc = "idle"
    /\ result = "Ok"
    /\ records = <<>>
    /\ Len(consumed) >= 2
    /\ \E i, j \in 1..Len(consumed) :
          IsBlank(consumed[i].text) /\ consumed[j].text = L_commented_entry
    /\ \A i \in 1..Len(consumed) :
          /\ consumed[i].ok
          /\ IsBlank(consumed[i].text) \/ IsComment(consumed[i].text)

\* C10: a non-empty line made only of spaces and tabs is skipped: no record,
\* no error, no crash, and the loop goes on.
C10_WhitespaceLineSkipped ==
    [][\A a \in Lines :
          (Consumes(a) /\ IsWhitespaceOnly(a)) =>
              (records' = records /\ pc' = "reading" /\ result' = result)]_vars

====
